---------------------------- MODULE Spec2Model ----------------------------
(***************************************************************************)
(* State-machine model of app.py: the themed in-memory CRUD REST service.  *)
(* A request runs through the decorator chain of its route, one stage per  *)
(* action: Receive (Flask routing) -> TokenRequired -> SimulateErrors ->   *)
(* the view function.  Every stage reads its input (header, random draw,   *)
(* JSON body) where the code reads it.                                     *)
(*                                                                         *)
(* Four specifications share the stages.  Spec serves one request at a     *)
(* time, with the default TIMEOUT_SECONDS.  SpecTimeouts is Spec with      *)
(* errors injected and TIMEOUT_SECONDS set to the default or less than     *)
(* 1.0.  SpecHistory is Spec with a record, deleted_ids, of the ids that   *)
(* deletes have removed.  SpecThreads serves the requests of Requests at   *)
(* once, each in a thread of its own (the threaded development server of   *)
(* app.run), a thread taking one step at a time: threads holds what each   *)
(* thread has in its local variables.                                      *)
(*                                                                         *)
(* Numbers: probabilities are in percent (0.2 is 20), durations in tenths  *)
(* of a second (2.0 s is 20).  A JSON value is a record that gives its     *)
(* type and, under the field of that type, its value; the values inside a  *)
(* JSON object of a request are JSON strings.  An optional string (a       *)
(* header, a query argument) is a sequence of length 0 or 1.               *)
(***************************************************************************)
EXTENDS Integers, Sequences, FiniteSets, TLC

VARIABLES data_store, config, pc, req, resp, threads, deleted_ids

vars == <<data_store, config, pc, req, resp, threads, deleted_ids>>

(***************************************************************************)
(* Bounds of the model.                                                    *)
(***************************************************************************)
\* longest collection a create may produce
MaxLen == 2

(***************************************************************************)
(* Configuration (app.py 15-53).                                           *)
(***************************************************************************)
THEMES ==
    [ space_exploration |-> <<"missions", "astronauts", "spacecraft">>,
      fantasy_rpg       |-> <<"characters", "quests", "items">>,
      smart_city        |-> <<"traffic_sensors", "public_transport",
                              "energy_consumption">> ]

Range(s) == { s[i] : i \in DOMAIN s }

\* "entity_type in THEMES[theme_id]['entities']"
Entities(theme_id) == Range(THEMES[theme_id])

\* chance, in percent, of each simulated error type
ERROR_TYPES ==
    [ timeout          |-> 10,
      rate_limit       |-> 15,
      server_error     |-> 10,
      validation_error |-> 20 ]

API_TOKEN == "student_test_token"

\* time.sleep(3) of /error-test?type=timeout, in tenths of a second
FIXED_DELAY == 30

\* lower end of random.uniform(1.0, timeout_seconds), in tenths of a second
UNIFORM_LOW == 10

(***************************************************************************)
(* Inputs of the environment, each drawn from a small set.                 *)
(***************************************************************************)
\* URL path segments <theme_id>/<entity_type>: a collection, an entity type
\* of another theme, an unknown theme
ReqPaths == { <<"space_exploration", "missions">>,
              <<"space_exploration", "characters">>,
              <<"nonexistent_theme", "missions">> }
\* URL path segment <entity_id>
ReqIds == {"1", "2"}
\* the wall clock read by time.strftime, in seconds after the model's epoch
\* (local time: it need not grow from one request to the next)
Times == {0, 1}

\* the X-API-Token header: absent, empty, wrong, right
ReqTokens == { <<>>, <<"">>, <<"wrong_token">>, <<API_TOKEN>> }

\* ERROR_RATE of the environment, in percent (default 0.2)
ErrorRates == {0, 20}
\* TIMEOUT_SECONDS of the environment, in tenths of a second (default 2.0)
TimeoutSeconds == {20}
\* values of TIMEOUT_SECONDS below the 1.0 of random.uniform(1.0,
\* timeout_seconds), for SpecTimeouts
LowTimeoutSeconds == {0, 4}
\* random.random(), in percent
RandomDraws == {10, 20}
\* the fraction u of random.uniform(a, b) = a + (b - a) * u, in halves
UniformDraws == {1}

\* ?type= of /error-test
ReqErrorTypes == { <<>>, <<"timeout">>, <<"rate_limit">>, <<"server_error">>,
                   <<"validation_error">>, <<"no_such_error">> }

\* the JSON values: None, and the constructors of the other types
None == [type |-> "None", dict |-> [k \in {} |-> ""], list |-> <<>>,
         str |-> "", int |-> 0, bool |-> FALSE]
Dict(f) == [None EXCEPT !.type = "dict", !.dict = f]
JsonList(l) == [None EXCEPT !.type = "list", !.list = l]
JsonStr(s) == [None EXCEPT !.type = "str", !.str = s]
JsonInt(n) == [None EXCEPT !.type = "int", !.int = n]
JsonBool(b) == [None EXCEPT !.type = "bool", !.bool = b]
EmptyDict == Dict([k \in {} |-> ""])

\* what request.get_json(silent=True) can return: None for an absent or
\* unparsable body, else the parsed JSON value
ReqBodies ==
    { None,
      EmptyDict,
      Dict([name |-> "Z"]),
      Dict([name |-> "X", description |-> "Y"]),
      Dict([id |-> "1", name |-> "X", description |-> "Y",
            created_at |-> "c", updated_at |-> "u"]),
      JsonList(<<>>),
      JsonList(<<"name", "description">>),
      JsonStr("x"),
      JsonInt(7),
      JsonBool(TRUE) }

(***************************************************************************)
(* Python and library helpers.                                             *)
(***************************************************************************)
Digits == <<"0", "1", "2", "3", "4", "5", "6", "7", "8", "9">>

\* str(n) of a non-negative int
RECURSIVE str(_)
str(n) == IF n < 10 THEN Digits[n + 1]
          ELSE str(n \div 10) \o Digits[(n % 10) + 1]

\* time.strftime("%Y-%m-%d %H:%M:%S") at clock value t (t < 60)
strftime(t) == "2024-01-01 00:00:" \o Digits[(t \div 10) + 1]
                                  \o Digits[(t % 10) + 1]

\* {**a, **b}
Merge(a, b) == [k \in (DOMAIN a) \cup (DOMAIN b) |->
                   IF k \in DOMAIN b THEN b[k] ELSE a[k]]

\* s in t, for two strings
IsSubstring(s, t) ==
    \E i \in 1..(Len(t) - Len(s) + 1) : SubSeq(t, i, i + Len(s) - 1) = s

\* bool(data)
Truthy(data) ==
    CASE data.type = "None" -> FALSE
      [] data.type = "dict" -> DOMAIN data.dict # {}
      [] data.type = "list" -> Len(data.list) > 0
      [] data.type = "str"  -> data.str # ""
      [] data.type = "int"  -> data.int # 0
      [] data.type = "bool" -> data.bool

\* whether "field in data" can be evaluated (else TypeError)
IsContainer(data) == data.type \in {"dict", "list", "str"}

\* field in data
Contains(data, field) ==
    CASE data.type = "dict" -> field \in DOMAIN data.dict
      [] data.type = "list" -> \E i \in DOMAIN data.list : data.list[i] = field
      [] data.type = "str"  -> IsSubstring(field, data.str)

\* ', '.join(missing): missing is built by iterating a set, in any order
Join(missing) ==
    IF missing = {} THEN {""}
    ELSE IF Cardinality(missing) = 1 THEN missing
    ELSE { a \o ", " \o b : <<a, b>> \in
             { p \in missing \X missing : p[1] # p[2] } }

(***************************************************************************)
(* Responses.                                                              *)
(***************************************************************************)
NoResponse == [status |-> 0, body |-> <<>>, delay |-> 0]

\* jsonify(body), status
Jsonify(body, status, delay) ==
    [status |-> status, body |-> body, delay |-> delay]

HttpName(code) ==
    CASE code = 400 -> "Bad Request"
      [] code = 401 -> "Unauthorized"
      [] code = 403 -> "Forbidden"
      [] code = 404 -> "Not Found"
      [] code = 422 -> "Unprocessable Entity"
      [] code = 429 -> "Too Many Requests"
      [] code = 500 -> "Internal Server Error"

\* abort(code, description), as rendered by the HTTPException handler
handle_exception(code, description, delay) ==
    [status |-> code,
     body   |-> [code |-> code, name |-> HttpName(code),
                 description |-> description],
     delay  |-> delay]

\* an exception that is no HTTPException (TypeError): answered 500
InternalServerError(delay) ==
    handle_exception(500, "The server encountered an internal error", delay)


(***************************************************************************)
(* View functions (app.py 166-302).  Each gives the set of outcomes        *)
(* [resp, store] the call can have on the store it is given.               *)
(***************************************************************************)
Outcome(r, store) == [resp |-> r, store |-> store]

\* the 404 checks every entity view starts with; <<>> when both pass
PathCheck(theme_id, entity_type, delay) ==
    IF theme_id \notin DOMAIN THEMES
    THEN << handle_exception(404, "Theme '" \o theme_id \o "' not found",
                             delay) >>
    ELSE IF entity_type \notin Entities(theme_id)
    THEN << handle_exception(404, "Entity type '" \o entity_type
                \o "' not found in theme '" \o theme_id \o "'", delay) >>
    ELSE <<>>

\* index of the first entity whose id is entity_id, 0 when there is none
\* ("for i, entity in enumerate(...): if entity['id'] == entity_id")
FindIndex(collection, entity_id) ==
    LET hits == { i \in DOMAIN collection : collection[i]["id"] = entity_id }
    IN  IF hits = {} THEN 0
        ELSE CHOOSE i \in hits : \A j \in hits : i <= j

\* EntityNotFound with a description that does not name the id
MutEntityNotFound(entity_id, delay) ==
    handle_exception(404, "Entity not found", delay)

EntityNotFound(entity_id, delay) ==
    handle_exception(404, "Entity with ID '" \o entity_id \o "' not found",
                     delay)

\* list.pop(): the last element, whatever i
MutPop(collection, i) == SubSeq(collection, 1, Len(collection) - 1)

\* list.pop(i)
Pop(collection, i) ==
    [ j \in 1..(Len(collection) - 1) |->
        IF j < i THEN collection[j] ELSE collection[j + 1] ]

list_entities(store, theme_id, entity_type, delay) ==
    LET bad == PathCheck(theme_id, entity_type, delay)
    IN  IF bad # <<>> THEN { Outcome(bad[1], store) }
        ELSE { Outcome(Jsonify([theme |-> theme_id,
                                entity_type |-> entity_type,
                                items |-> store[theme_id][entity_type]],
                               200, delay), store) }

\* the new_entity of create_entity
NewEntity(collection, data, t) ==
    Merge(Merge([id |-> str(Len(collection) + 1)], data.dict),
          [created_at |-> strftime(t)])

\* create_entity that appends the record before it checks the required
\* fields
MutCreateEntity(store, theme_id, entity_type, data, t, delay) ==
    LET bad == PathCheck(theme_id, entity_type, delay)
        required_fields == {"name", "description"}
    IN  IF bad # <<>> THEN { Outcome(bad[1], store) }
        ELSE IF ~Truthy(data)
        THEN { Outcome(handle_exception(400, "Invalid JSON data", delay),
                       store) }
        ELSE IF data.type # "dict"
        THEN { Outcome(InternalServerError(delay), store) }
        ELSE LET collection == store[theme_id][entity_type]
                 new_entity == NewEntity(collection, data, t)
                 appended == [store EXCEPT ![theme_id][entity_type] =
                                 Append(collection, new_entity)]
                 missing == { field \in required_fields :
                                ~Contains(data, field) }
             IN  IF missing # {}
                 THEN { Outcome(handle_exception(400,
                          "Missing required fields: " \o joined, delay),
                          appended) : joined \in Join(missing) }
                 ELSE { Outcome(Jsonify(new_entity, 201, delay), appended) }

create_entity(store, theme_id, entity_type, data, t, delay) ==
    LET bad == PathCheck(theme_id, entity_type, delay)
        required_fields == {"name", "description"}
    IN  IF bad # <<>> THEN { Outcome(bad[1], store) }
        ELSE IF ~Truthy(data)
        THEN { Outcome(handle_exception(400, "Invalid JSON data", delay),
                       store) }
        ELSE IF ~IsContainer(data)
        THEN { Outcome(InternalServerError(delay), store) }
        ELSE IF ~(\A field \in required_fields : Contains(data, field))
        THEN LET missing == { field \in required_fields :
                                ~Contains(data, field) }
             IN  { Outcome(handle_exception(400,
                       "Missing required fields: " \o joined, delay), store)
                   : joined \in Join(missing) }
        ELSE IF data.type # "dict"
        THEN { Outcome(InternalServerError(delay), store) }
        ELSE LET collection == store[theme_id][entity_type]
                 new_entity == NewEntity(collection, data, t)
             IN  { Outcome(Jsonify(new_entity, 201, delay),
                     [store EXCEPT ![theme_id][entity_type] =
                         Append(collection, new_entity)]) }

get_entity(store, theme_id, entity_type, entity_id, delay) ==
    LET bad == PathCheck(theme_id, entity_type, delay)
    IN  IF bad # <<>> THEN { Outcome(bad[1], store) }
        ELSE LET collection == store[theme_id][entity_type]
                 i == FindIndex(collection, entity_id)
             IN  IF i = 0
                 THEN { Outcome(EntityNotFound(entity_id, delay), store) }
                 ELSE { Outcome(Jsonify(collection[i], 200, delay), store) }

\* UpdatedEntity with the caller's fields applied last
MutUpdatedEntity(entity, data, entity_id, t) ==
    Merge(Merge(Merge(Merge(entity, [id |-> entity_id]),
                      [created_at |-> entity["created_at"]]),
                [updated_at |-> strftime(t)]),
          data.dict)

\* the updated_entity of update_entity
UpdatedEntity(entity, data, entity_id, t) ==
    Merge(Merge(Merge(Merge(entity, data.dict),
                      [id |-> entity_id]),
                [created_at |-> entity["created_at"]]),
          [updated_at |-> strftime(t)])

update_entity(store, theme_id, entity_type, entity_id, data, t, delay) ==
    LET bad == PathCheck(theme_id, entity_type, delay)
    IN  IF bad # <<>> THEN { Outcome(bad[1], store) }
        ELSE IF ~Truthy(data)
        THEN { Outcome(handle_exception(400, "Invalid JSON data", delay),
                       store) }
        ELSE LET collection == store[theme_id][entity_type]
                 i == FindIndex(collection, entity_id)
             IN  IF i = 0
                 THEN { Outcome(EntityNotFound(entity_id, delay), store) }
                 ELSE IF data.type # "dict"
                 THEN { Outcome(InternalServerError(delay), store) }
                 ELSE LET updated_entity ==
                              UpdatedEntity(collection[i], data, entity_id, t)
                      IN  { Outcome(Jsonify(updated_entity, 200, delay),
                              [store EXCEPT ![theme_id][entity_type][i] =
                                  updated_entity]) }

delete_entity(store, theme_id, entity_type, entity_id, delay) ==
    LET bad == PathCheck(theme_id, entity_type, delay)
    IN  IF bad # <<>> THEN { Outcome(bad[1], store) }
        ELSE LET collection == store[theme_id][entity_type]
                 i == FindIndex(collection, entity_id)
             IN  IF i = 0
                 THEN { Outcome(EntityNotFound(entity_id, delay), store) }
                 ELSE { Outcome(Jsonify(
                          [message |-> "Entity '" \o entity_id
                                       \o "' deleted successfully",
                           deleted |-> collection[i]], 200, delay),
                          [store EXCEPT ![theme_id][entity_type] =
                              Pop(collection, i)]) }

\* test_errors with the statuses of server_error and validation_error
\* exchanged
MutTestErrors(store, error_type) ==
    IF error_type = <<>> \/ error_type[1] = ""
       \/ error_type[1] \notin DOMAIN ERROR_TYPES
    THEN { Outcome(Jsonify([available_errors |-> DOMAIN ERROR_TYPES],
                           200, 0), store) }
    ELSE IF error_type[1] = "timeout"
    THEN { Outcome(Jsonify([message |-> "Response after timeout"],
                           200, FIXED_DELAY), store) }
    ELSE IF error_type[1] = "rate_limit"
    THEN { Outcome(handle_exception(429,
              "Rate limit exceeded. Try again later.", 0), store) }
    ELSE IF error_type[1] = "server_error"
    THEN { Outcome(handle_exception(422,
              "Invalid data format or content", 0), store) }
    ELSE { Outcome(handle_exception(500,
              "Internal server error occurred", 0), store) }

\* /error-test
test_errors(store, error_type) ==
    IF error_type = <<>> \/ error_type[1] = ""
       \/ error_type[1] \notin DOMAIN ERROR_TYPES
    THEN { Outcome(Jsonify([available_errors |-> DOMAIN ERROR_TYPES],
                           200, 0), store) }
    ELSE IF error_type[1] = "timeout"
    THEN { Outcome(Jsonify([message |-> "Response after timeout"],
                           200, FIXED_DELAY), store) }
    ELSE IF error_type[1] = "rate_limit"
    THEN { Outcome(handle_exception(429,
              "Rate limit exceeded. Try again later.", 0), store) }
    ELSE IF error_type[1] = "server_error"
    THEN { Outcome(handle_exception(500,
              "Internal server error occurred", 0), store) }
    ELSE { Outcome(handle_exception(422,
              "Invalid data format or content", 0), store) }

(***************************************************************************)
(* The server: its store and the request it is handling.                   *)
(***************************************************************************)
\* what of a request has been read so far; a part not read yet holds the
\* value given here
NoRequest ==
    [ endpoint     |-> "none",
      theme_id     |-> "",
      entity_type  |-> "",
      entity_id    |-> "",
      type         |-> <<>>,
      token        |-> <<>>,
      r            |-> 100,
      error_type   |-> "none",
      delay        |-> 0,
      data         |-> [None EXCEPT !.type = "unread"],
      now          |-> <<>> ]

\* the requests served at once under SpecThreads, each by a thread
Requests == {1, 2}

\* the local variables of a thread that has not read its request yet: an
\* optional record (entity, new_entity, resp) is a sequence of length 0 or 1,
\* i is the index of enumerate() counted from 1, size the len() read
NoThread ==
    [ pc          |-> "idle",
      endpoint    |-> "none",
      theme_id    |-> "",
      entity_type |-> "",
      entity_id   |-> "",
      delay       |-> 0,
      data        |-> [None EXCEPT !.type = "unread"],
      i           |-> 0,
      size        |-> 0,
      entity      |-> <<>>,
      new_entity  |-> <<>>,
      resp        |-> <<>> ]

\* data_store as built at import (app.py 34-38): every collection empty
EmptyStore ==
    [ theme \in DOMAIN THEMES |-> [ entity \in Entities(theme) |-> <<>> ] ]

\* get_config(): the environment is read at every request and does not
\* change while the server runs
get_config == config

\* init_sample_data(), run when the module is the main program
init_sample_data(store) ==
    [store EXCEPT
       !["space_exploration"]["missions"] =
          << [id |-> "1", name |-> "Mars Rover Mission",
              description |-> "Explore the surface of Mars",
              status |-> "in-progress",
              created_at |-> "2023-01-15 10:30:00"],
             [id |-> "2", name |-> "Jupiter Orbital",
              description |-> "Study Jupiter's atmosphere",
              status |-> "planned",
              created_at |-> "2023-02-20 14:45:00"] >>,
       !["space_exploration"]["astronauts"] =
          << [id |-> "1", name |-> "Dr. Sarah Chen",
              description |-> "Astrophysicist and mission specialist",
              specialty |-> "Planetary geology",
              created_at |-> "2023-01-10 09:20:00"] >>,
       !["fantasy_rpg"]["characters"] =
          << [id |-> "1", name |-> "Elindra",
              description |-> "Elven ranger from the western forests",
              class |-> "Ranger", level |-> 5,
              created_at |-> "2023-03-05 11:15:00"] >>,
       !["fantasy_rpg"]["quests"] =
          << [id |-> "1", name |-> "The Lost Artifact",
              description |-> "Recover an ancient artifact from the ruins",
              difficulty |-> "Medium", reward |-> "500 gold",
              created_at |-> "2023-03-10 16:20:00"] >>,
       !["smart_city"]["traffic_sensors"] =
          << [id |-> "1", name |-> "Downtown Junction A",
              description |-> "Main intersection traffic monitor",
              status |-> "active",
              created_at |-> "2023-04-12 08:30:00"] >>,
       !["smart_city"]["public_transport"] =
          << [id |-> "1", name |-> "Metro Line 1",
              description |-> "North-South metro connection",
              status |-> "operational", capacity |-> 1200,
              created_at |-> "2023-04-15 13:45:00"] >> ]

\* the server starts with the store as imported (served by a WSGI host) or
\* with the sample data (python app.py)
Init ==
    /\ data_store \in {EmptyStore, init_sample_data(EmptyStore)}
    /\ config \in [error_rate : ErrorRates, timeout_seconds : TimeoutSeconds]
    /\ pc = "idle"
    /\ req = NoRequest
    /\ resp = NoResponse
    /\ threads = [n \in Requests |-> NoThread]
    /\ deleted_ids = {}

\* routes whose view is wrapped in @token_required and @simulate_errors
CollectionViews == {"list_entities", "create_entity"}
EntityViews == {"get_entity", "update_entity", "delete_entity"}

\* Flask routing of /themes/<theme_id>/<entity_type>[/<entity_id>]
ReceiveEntityRequest ==
    /\ pc = "idle"
    /\ \E endpoint \in CollectionViews \cup EntityViews,
          path \in ReqPaths, entity_id \in ReqIds :
          /\ endpoint \in CollectionViews => entity_id = "1"
          /\ req' = [NoRequest EXCEPT
                       !.endpoint = endpoint,
                       !.theme_id = path[1],
                       !.entity_type = path[2],
                       !.entity_id = IF endpoint \in EntityViews
                                     THEN entity_id ELSE ""]
    /\ pc' = "token_required"
    /\ resp' = NoResponse
    /\ UNCHANGED <<data_store, config>>

\* Flask routing of /error-test: no decorator, whatever the request carries
ReceiveErrorTest ==
    /\ pc = "idle"
    /\ \E type \in ReqErrorTypes, token \in ReqTokens :
          req' = [NoRequest EXCEPT !.endpoint = "test_errors",
                                   !.type = type,
                                   !.token = token]
    /\ pc' = "view"
    /\ resp' = NoResponse
    /\ UNCHANGED <<data_store, config>>

\* not token
TokenMissing(token) == token = <<>> \/ token[1] = ""

\* token_required without the comparison with the secret
MutTokenRequired(token) ==
    IF TokenMissing(token)
    THEN << handle_exception(401, "API token is missing", 0) >>
    ELSE <<>>

\* @token_required: <<>> when the view may run, else the abort
token_required(token) ==
    IF TokenMissing(token)
    THEN << handle_exception(401, "API token is missing", 0) >>
    ELSE IF token[1] # API_TOKEN
    THEN << handle_exception(403, "Invalid API token", 0) >>
    ELSE <<>>

TokenRequired ==
    /\ pc = "token_required"
    /\ \E token \in ReqTokens :
          LET bad == token_required(token)
          IN  /\ req' = [req EXCEPT !.token = token]
              /\ IF bad # <<>>
                 THEN pc' = "done" /\ resp' = bad[1]
                 ELSE pc' = "simulate_errors" /\ resp' = resp
    /\ UNCHANGED <<data_store, config>>

\* random.uniform(a, b) = a + (b - a) * u, u in halves
Uniform(a, b, u) == a + ((b - a) * u) \div 2

\* SimulatedAbort with an abort for timeout as well
MutSimulatedAbort(error_type) ==
    CASE error_type = "timeout" ->
           << handle_exception(500, "Request timed out", 0) >>
      [] error_type = "rate_limit" ->
           << handle_exception(429, "Rate limit exceeded. Try again later.",
                               0) >>
      [] error_type = "server_error" ->
           << handle_exception(500, "Internal server error occurred", 0) >>
      [] error_type = "validation_error" ->
           << handle_exception(422, "Invalid data format or content", 0) >>

\* the abort of an error type chosen by @simulate_errors; <<>> for timeout
SimulatedAbort(error_type) ==
    CASE error_type = "timeout" -> <<>>
      [] error_type = "rate_limit" ->
           << handle_exception(429, "Rate limit exceeded. Try again later.",
                               0) >>
      [] error_type = "server_error" ->
           << handle_exception(500, "Internal server error occurred", 0) >>
      [] error_type = "validation_error" ->
           << handle_exception(422, "Invalid data format or content", 0) >>

\* @simulate_errors
SimulateErrors ==
    /\ pc = "simulate_errors"
    /\ \E r \in RandomDraws :
          IF r < get_config.error_rate
          THEN \E error_type \in { t \in DOMAIN ERROR_TYPES :
                                     ERROR_TYPES[t] > 0 },
                  u \in UniformDraws :
                  LET bad == SimulatedAbort(error_type)
                      d == IF error_type = "timeout"
                           THEN Uniform(UNIFORM_LOW,
                                        get_config.timeout_seconds, u)
                           ELSE 0
                  IN  /\ req' = [req EXCEPT !.r = r,
                                            !.error_type = error_type,
                                            !.delay = d]
                      /\ IF bad # <<>>
                         THEN pc' = "done" /\ resp' = bad[1]
                         ELSE pc' = "view" /\ resp' = resp
          ELSE /\ req' = [req EXCEPT !.r = r]
               /\ pc' = "view"
               /\ resp' = resp
    /\ UNCHANGED <<data_store, config>>

\* the outcomes of the view of the request being handled, reading body data
ViewOutcomes(store, q, data, t) ==
    CASE q.endpoint = "list_entities" ->
           list_entities(store, q.theme_id, q.entity_type, q.delay)
      [] q.endpoint = "create_entity" ->
           create_entity(store, q.theme_id, q.entity_type, data, t, q.delay)
      [] q.endpoint = "get_entity" ->
           get_entity(store, q.theme_id, q.entity_type, q.entity_id, q.delay)
      [] q.endpoint = "update_entity" ->
           update_entity(store, q.theme_id, q.entity_type, q.entity_id,
                         data, t, q.delay)
      [] q.endpoint = "delete_entity" ->
           delete_entity(store, q.theme_id, q.entity_type, q.entity_id,
                         q.delay)
      [] q.endpoint = "test_errors" ->
           test_errors(store, q.type)

\* no collection grows beyond the bound of the model
WithinBounds(store) ==
    \A theme \in DOMAIN store : \A entity \in DOMAIN store[theme] :
        Len(store[theme][entity]) <= MaxLen

\* whether the view gets as far as request.get_json(): create and update
\* read the body after their two 404 checks
ReadsBody(q) ==
    /\ q.endpoint \in {"create_entity", "update_entity"}
    /\ PathCheck(q.theme_id, q.entity_type, 0) = <<>>

\* whether the view gets as far as time.strftime(): a create or an update
\* that succeeds
ReadsClock(q, out) == ReadsBody(q) /\ out.resp.status < 400

\* the view function runs, start to end
View ==
    /\ pc = "view"
    /\ \E data \in ReqBodies, t \in Times :
          /\ ~ReadsBody(req) => data = None
          /\ \E out \in ViewOutcomes(data_store, req, data, t) :
                /\ ~ReadsClock(req, out) => t = 0
                /\ WithinBounds(out.store)
                /\ data_store' = out.store
                /\ resp' = out.resp
                /\ req' = [req EXCEPT
                             !.data = IF ReadsBody(req) THEN data ELSE @,
                             !.now = IF ReadsClock(req, out)
                                     THEN <<t>> ELSE @]
    /\ pc' = "done"
    /\ UNCHANGED config

\* the response is sent and the server waits for the next request
Respond ==
    /\ pc = "done"
    /\ pc' = "idle"
    /\ req' = NoRequest
    /\ resp' = NoResponse
    /\ UNCHANGED <<data_store, config>>

Next ==
    \/ ReceiveEntityRequest /\ UNCHANGED <<threads, deleted_ids>>
    \/ ReceiveErrorTest /\ UNCHANGED <<threads, deleted_ids>>
    \/ TokenRequired /\ UNCHANGED <<threads, deleted_ids>>
    \/ SimulateErrors /\ UNCHANGED <<threads, deleted_ids>>
    \/ View /\ UNCHANGED <<threads, deleted_ids>>
    \/ Respond /\ UNCHANGED <<threads, deleted_ids>>

Spec == Init /\ [][Next]_vars

\* the server with errors injected, and TIMEOUT_SECONDS the default or less
\* than 1.0
InitTimeouts ==
    /\ data_store \in {EmptyStore, init_sample_data(EmptyStore)}
    /\ config \in [error_rate : ErrorRates \ {0},
                   timeout_seconds : LowTimeoutSeconds \cup TimeoutSeconds]
    /\ pc = "idle"
    /\ req = NoRequest
    /\ resp = NoResponse
    /\ threads = [n \in Requests |-> NoThread]
    /\ deleted_ids = {}

SpecTimeouts == InitTimeouts /\ [][Next]_vars

\* the ids that successful deletes have removed, by collection: deleted_ids
\* is no variable of app.py, it records what the deletes of a run did
Deleted(q, r) ==
    IF q.endpoint = "delete_entity" /\ r.status = 200
    THEN {<<q.theme_id, q.entity_type, q.entity_id>>}
    ELSE {}

NextHistory ==
    \/ ReceiveEntityRequest /\ UNCHANGED <<threads, deleted_ids>>
    \/ ReceiveErrorTest /\ UNCHANGED <<threads, deleted_ids>>
    \/ TokenRequired /\ UNCHANGED <<threads, deleted_ids>>
    \/ SimulateErrors /\ UNCHANGED <<threads, deleted_ids>>
    \/ /\ View
       /\ deleted_ids' = deleted_ids \cup Deleted(req, resp')
       /\ UNCHANGED threads
    \/ Respond /\ UNCHANGED <<threads, deleted_ids>>

SpecHistory == Init /\ [][NextHistory]_vars

(***************************************************************************)
(* The threaded server (app.run, app.py 379-382): every request of         *)
(* Requests is served by a thread of its own, and the threads take their   *)
(* steps in any order.  A step is one access of the shared store with the  *)
(* local computation around it; app.py takes no lock.                      *)
(***************************************************************************)
\* URL paths of the concurrent requests: those of ReqPaths and a second
\* collection
ThreadPaths == ReqPaths \cup { <<"space_exploration", "astronauts">> }

\* MayRun of a server that serves one request at a time
MutMayRun(n) == \A m \in Requests \ {n} : threads[m].pc \in {"idle", "done"}

\* whether the server lets thread n take its next step now: the threaded
\* server runs every thread, whatever the others are doing
MayRun(n) == TRUE

\* a step of thread n, which leaves it with the local variables of th: the
\* server lets the thread run, and the step changes nothing of the other
\* threads
Set(n, th) ==
    /\ MayRun(n)
    /\ threads' = [threads EXCEPT ![n] = th]
    /\ UNCHANGED <<config, pc, req, resp, deleted_ids>>

\* thread n returns response r
Return(n, r) == Set(n, [threads[n] EXCEPT !.pc = "done", !.resp = <<r>>])

\* the collection the request of thread th addresses
Collection(th) == data_store[th.theme_id][th.entity_type]

\* the new_entity of create_entity, from the len() read before
NewEntityOfSize(size, data, t) ==
    Merge(Merge([id |-> str(size + 1)], data.dict),
          [created_at |-> strftime(t)])

\* Flask routing, in the thread of the request
ThreadReceive(n) ==
    /\ threads[n].pc = "idle"
    /\ \E endpoint \in CollectionViews \cup EntityViews,
          path \in ThreadPaths, entity_id \in ReqIds :
          /\ endpoint \in CollectionViews => entity_id = "1"
          /\ Set(n, [NoThread EXCEPT
                       !.pc = "token_required",
                       !.endpoint = endpoint,
                       !.theme_id = path[1],
                       !.entity_type = path[2],
                       !.entity_id = IF endpoint \in EntityViews
                                     THEN entity_id ELSE ""])
    /\ UNCHANGED data_store

\* @token_required
ThreadTokenRequired(n) ==
    /\ threads[n].pc = "token_required"
    /\ \E token \in ReqTokens :
          LET bad == token_required(token)
          IN  IF bad # <<>>
              THEN Return(n, bad[1])
              ELSE Set(n, [threads[n] EXCEPT !.pc = "simulate_errors"])
    /\ UNCHANGED data_store

\* @simulate_errors, up to the call of time.sleep
ThreadSimulateErrors(n) ==
    /\ threads[n].pc = "simulate_errors"
    /\ \E r \in RandomDraws :
          IF r < get_config.error_rate
          THEN \E error_type \in { t \in DOMAIN ERROR_TYPES :
                                     ERROR_TYPES[t] > 0 },
                  u \in UniformDraws :
                  LET bad == SimulatedAbort(error_type)
                  IN  IF bad # <<>>
                      THEN Return(n, bad[1])
                      ELSE Set(n, [threads[n] EXCEPT
                                     !.pc = "sleep",
                                     !.delay = Uniform(UNIFORM_LOW,
                                         get_config.timeout_seconds, u)])
          ELSE Set(n, [threads[n] EXCEPT !.pc = "view"])
    /\ UNCHANGED data_store

\* time.sleep returns
ThreadSleep(n) ==
    /\ threads[n].pc = "sleep"
    /\ Set(n, [threads[n] EXCEPT !.pc = "view"])
    /\ UNCHANGED data_store

\* the view function up to its first access of data_store: the 404 checks,
\* the body and its checks; list_entities has nothing more to do
ThreadView(n) ==
    LET th == threads[n]
        bad == PathCheck(th.theme_id, th.entity_type, th.delay)
    IN  /\ th.pc = "view"
        /\ IF bad # <<>> THEN Return(n, bad[1])
           ELSE IF th.endpoint = "list_entities"
           THEN \E out \in list_entities(data_store, th.theme_id,
                                         th.entity_type, th.delay) :
                   Return(n, out.resp)
           ELSE IF th.endpoint \in {"get_entity", "delete_entity"}
           THEN Set(n, [th EXCEPT !.pc = "scan", !.i = 1])
           ELSE \E data \in ReqBodies :
                   IF ~Truthy(data)
                   THEN Return(n, handle_exception(400, "Invalid JSON data",
                                                   th.delay))
                   ELSE IF th.endpoint = "update_entity"
                   THEN Set(n, [th EXCEPT !.pc = "scan", !.i = 1,
                                          !.data = data])
                   ELSE LET rejected ==
                              { out \in create_entity(data_store,
                                    th.theme_id, th.entity_type, data, 0,
                                    th.delay) : out.resp.status # 201 }
                        IN  IF rejected # {}
                            THEN \E out \in rejected : Return(n, out.resp)
                            ELSE Set(n, [th EXCEPT !.pc = "create_len",
                                                   !.data = data])
        /\ UNCHANGED data_store

\* create_entity: len(data_store[theme_id][entity_type])
CreateLen(n) ==
    /\ threads[n].pc = "create_len"
    /\ Set(n, [threads[n] EXCEPT !.pc = "create_build",
                                 !.size = Len(Collection(threads[n]))])
    /\ UNCHANGED data_store

\* create_entity: the rest of the dict display of new_entity
CreateBuild(n) ==
    /\ threads[n].pc = "create_build"
    /\ \E t \in Times :
          Set(n, [threads[n] EXCEPT
                    !.pc = "create_append",
                    !.new_entity = << NewEntityOfSize(threads[n].size,
                                                      threads[n].data, t) >>])
    /\ UNCHANGED data_store

\* create_entity: append and return
CreateAppend(n) ==
    LET th == threads[n]
    IN  /\ th.pc = "create_append"
        /\ data_store' = [data_store EXCEPT
                            ![th.theme_id][th.entity_type] =
                                Append(@, th.new_entity[1])]
        /\ Return(n, Jsonify(th.new_entity[1], 201, th.delay))

\* one turn of "for [i,] entity in [enumerate(]data_store[...][...][)]": the
\* list iterator reads the list as it is now
Scan(n) ==
    LET th == threads[n]
        collection == Collection(th)
    IN  /\ th.pc = "scan"
        /\ IF th.i > Len(collection)
           THEN Return(n, EntityNotFound(th.entity_id, th.delay))
           ELSE IF collection[th.i]["id"] # th.entity_id
           THEN Set(n, [th EXCEPT !.i = th.i + 1])
           ELSE IF th.endpoint = "get_entity"
           THEN Return(n, Jsonify(collection[th.i], 200, th.delay))
           ELSE Set(n, [th EXCEPT
                          !.pc = IF th.endpoint = "update_entity"
                                 THEN "update_build" ELSE "delete_pop",
                          !.entity = << collection[th.i] >>])
        /\ UNCHANGED data_store

\* update_entity: the dict display of updated_entity
UpdateBuild(n) ==
    LET th == threads[n]
    IN  /\ th.pc = "update_build"
        /\ IF th.data.type # "dict"
           THEN Return(n, InternalServerError(th.delay))
           ELSE \E t \in Times :
                   Set(n, [th EXCEPT
                             !.pc = "update_store",
                             !.new_entity = << UpdatedEntity(th.entity[1],
                                               th.data, th.entity_id, t) >>])
        /\ UNCHANGED data_store

\* update_entity: data_store[theme_id][entity_type][i] = updated_entity
\* (IndexError when the list has become shorter) and return
UpdateStore(n) ==
    LET th == threads[n]
    IN  /\ th.pc = "update_store"
        /\ IF th.i > Len(Collection(th))
           THEN /\ Return(n, InternalServerError(th.delay))
                /\ UNCHANGED data_store
           ELSE /\ data_store' = [data_store EXCEPT
                      ![th.theme_id][th.entity_type][th.i] = th.new_entity[1]]
                /\ Return(n, Jsonify(th.new_entity[1], 200, th.delay))

\* delete_entity: data_store[theme_id][entity_type].pop(i) (IndexError when
\* the list has become shorter) and return
DeletePop(n) ==
    LET th == threads[n]
        collection == Collection(th)
    IN  /\ th.pc = "delete_pop"
        /\ IF th.i > Len(collection)
           THEN /\ Return(n, InternalServerError(th.delay))
                /\ UNCHANGED data_store
           ELSE /\ data_store' = [data_store EXCEPT
                      ![th.theme_id][th.entity_type] = Pop(collection, th.i)]
                /\ Return(n, Jsonify(
                      [message |-> "Entity '" \o th.entity_id
                                   \o "' deleted successfully",
                       deleted |-> collection[th.i]], 200, th.delay))

\* the next step of thread n
ThreadStep(n) ==
    \/ ThreadReceive(n)
    \/ ThreadTokenRequired(n)
    \/ ThreadSimulateErrors(n)
    \/ ThreadSleep(n)
    \/ ThreadView(n)
    \/ CreateLen(n)
    \/ CreateBuild(n)
    \/ CreateAppend(n)
    \/ Scan(n)
    \/ UpdateBuild(n)
    \/ UpdateStore(n)
    \/ DeletePop(n)

NextThreads == \E n \in Requests : ThreadStep(n)

SpecThreads == Init /\ [][NextThreads]_vars

(***************************************************************************)
(* Vocabulary of the properties.                                           *)
(***************************************************************************)
ProtectedViews == CollectionViews \cup EntityViews

\* the collection a request addresses (its path passed both 404 checks)
ValidPath(q) == PathCheck(q.theme_id, q.entity_type, 0) = <<>>
Addressed(store, q) == store[q.theme_id][q.entity_type]

\* the step in which the view function of the request in hand runs
ViewStep(endpoint) == pc = "view" /\ pc' = "done" /\ req.endpoint = endpoint

\* a finished request of a view
Finished(endpoint) == pc = "done" /\ req.endpoint = endpoint

\* the request passed @token_required, and @simulate_errors chose no error
Authorized(q) == q.token = <<API_TOKEN>>
NonFaulted(q) == q.error_type = "none"

ReservedFields == {"id", "created_at", "updated_at"}

(***************************************************************************)
(* C1.  In every reachable state the records of a collection have          *)
(* pairwise distinct ids.                                                  *)
(***************************************************************************)
C1_UniqueIds ==
    \A theme \in DOMAIN data_store : \A entity \in DOMAIN data_store[theme] :
        LET collection == data_store[theme][entity]
        IN  \A i, j \in DOMAIN collection :
               i # j => collection[i]["id"] # collection[j]["id"]

(***************************************************************************)
(* C2.  A successful delete of an id removes exactly one record, returns   *)
(* as "deleted" a record with that id, and a get of the same id issued     *)
(* right after it is answered 404.                                         *)
(***************************************************************************)
C2_DeleteThenGet404 ==
    [][ (ViewStep("delete_entity") /\ resp'.status = 200) =>
          /\ Len(Addressed(data_store', req)) =
                Len(Addressed(data_store, req)) - 1
          /\ resp'.body.deleted["id"] = req.entity_id
          /\ \A out \in get_entity(data_store', req.theme_id,
                                   req.entity_type, req.entity_id, 0) :
                out.resp.status = 404 ]_vars

(***************************************************************************)
(* C3.  When a create has succeeded and returned a record with id i, a get *)
(* of id i on the same collection issued right after it is answered 200    *)
(* with that same record.                                                  *)
(***************************************************************************)
C3_CreateThenGetSame ==
    (Finished("create_entity") /\ resp.status = 201) =>
        \A out \in get_entity(data_store, req.theme_id, req.entity_type,
                              resp.body["id"], 0) :
            out.resp.status = 200 /\ out.resp.body = resp.body

(***************************************************************************)
(* C4.  A successful update, whatever fields the caller supplies, replaces *)
(* one record with the requested id, at its position, by a record with the *)
(* same id and created_at, updated_at set to the time of the update, every *)
(* other supplied field overwritten and every other old field kept; the    *)
(* collection keeps its length and its other records.                      *)
(***************************************************************************)
IsUpdateOf(old, new, data, t) ==
    /\ DOMAIN new = (DOMAIN old) \cup (DOMAIN data) \cup {"updated_at"}
    /\ new["id"] = old["id"]
    /\ new["created_at"] = old["created_at"]
    /\ new["updated_at"] = strftime(t)
    /\ \A k \in (DOMAIN data) \ ReservedFields : new[k] = data[k]
    /\ \A k \in (DOMAIN old) \ ((DOMAIN data) \cup ReservedFields) :
          new[k] = old[k]

C4_UpdateSemantics ==
    [][ (ViewStep("update_entity") /\ resp'.status = 200) =>
          LET old == Addressed(data_store, req)
              new == Addressed(data_store', req)
          IN  /\ req'.data.type = "dict"
              /\ req'.now # <<>>
              /\ Len(new) = Len(old)
              /\ \E i \in DOMAIN old :
                    /\ old[i]["id"] = req.entity_id
                    /\ new = [old EXCEPT ![i] = resp'.body]
                    /\ IsUpdateOf(old[i], resp'.body, req'.data.dict,
                                  req'.now[1]) ]_vars

\* an update whose body supplies all three reserved fields, with another id
\* and other times than the record's, and leaves an old field alone
C4_Witness ==
    /\ Finished("update_entity")
    /\ resp.status = 200
    /\ req.data.type = "dict"
    /\ ReservedFields \subseteq DOMAIN req.data.dict
    /\ req.data.dict["id"] # resp.body["id"]
    /\ req.data.dict["created_at"] # resp.body["created_at"]
    /\ "status" \in DOMAIN resp.body

(***************************************************************************)
(* C5.  On every protected route a request with no token is answered 401,  *)
(* a request with any token other than the secret (the empty string        *)
(* included) is answered 403, and a request with the secret is never       *)
(* answered 401 or 403.                                                    *)
(***************************************************************************)
C5_TokenStatus ==
    (pc = "done" /\ req.endpoint \in ProtectedViews) =>
        /\ req.token = <<>> => resp.status = 401
        /\ (req.token # <<>> /\ req.token[1] # API_TOKEN) => resp.status = 403
        /\ req.token = <<API_TOKEN>> => resp.status \notin {401, 403}

(***************************************************************************)
(* C6 as claimed.  A request to a protected route that names an unknown    *)
(* theme, or an entity type its theme does not declare, is answered 404    *)
(* whatever its token.                                                     *)
(***************************************************************************)
C6_PathCheckedFirst ==
    (pc = "done" /\ req.endpoint \in ProtectedViews /\ ~ValidPath(req)) =>
        resp.status = 404

(***************************************************************************)
(* C6 as amended.  Authentication and fault injection come before the      *)
(* checks of the theme and the entity type: a request to a protected route *)
(* that names an unknown theme or an undeclared entity type is answered    *)
(* 401 or 403 when its token is not the secret; with the secret it is      *)
(* answered 429, 500 or 422 when the fault injector rejects it, and 404    *)
(* otherwise.                                                              *)
(***************************************************************************)
C6_AuthAndFaultsFirst ==
    (pc = "done" /\ req.endpoint \in ProtectedViews /\ ~ValidPath(req)) =>
        /\ ~Authorized(req) => resp.status \in {401, 403}
        /\ (Authorized(req) /\ req.error_type = "rate_limit")
              => resp.status = 429
        /\ (Authorized(req) /\ req.error_type = "server_error")
              => resp.status = 500
        /\ (Authorized(req) /\ req.error_type = "validation_error")
              => resp.status = 422
        /\ (Authorized(req) /\ req.error_type \in {"none", "timeout"})
              => resp.status = 404

\* an unknown theme asked for with a wrong token: 403, not 404
C6_Witness ==
    /\ pc = "done"
    /\ req.endpoint \in ProtectedViews
    /\ req.theme_id \notin DOMAIN THEMES
    /\ req.token = <<"wrong_token">>
    /\ resp.status = 403

(***************************************************************************)
(* C7.  /error-test answers by its type alone, whatever the token, the     *)
(* error rate and the store: 429 for rate_limit, 500 for server_error, 422 *)
(* for validation_error, 200 after the fixed delay for timeout, 200 with   *)
(* the catalog of kinds and no delay for no type or an unknown one; and it *)
(* changes no collection.                                                  *)
(***************************************************************************)
C7_ErrorTest ==
    [][ ViewStep("test_errors") =>
          /\ data_store' = data_store
          /\ req.type = <<"rate_limit">> => resp'.status = 429
          /\ req.type = <<"server_error">> => resp'.status = 500
          /\ req.type = <<"validation_error">> => resp'.status = 422
          /\ req.type = <<"timeout">> =>
                resp'.status = 200 /\ resp'.delay = FIXED_DELAY
          /\ (req.type = <<>> \/ req.type[1] \notin DOMAIN ERROR_TYPES) =>
                /\ resp'.status = 200
                /\ resp'.delay = 0
                /\ resp'.body = [available_errors |-> DOMAIN ERROR_TYPES] ]_vars

\* a rate_limit test with no token, with the error rate 0 and records stored
C7_Witness ==
    /\ Finished("test_errors")
    /\ req.type = <<"rate_limit">>
    /\ req.token = <<>>
    /\ config.error_rate = 0
    /\ data_store["space_exploration"]["missions"] # <<>>
    /\ resp.status = 429

(***************************************************************************)
(* C8.  An authorized, non-faulted create whose body is a mapping without  *)
(* name or without description (the empty mapping included) is answered    *)
(* 400 with a description naming every missing required field, and appends *)
(* no record.                                                              *)
(***************************************************************************)
C8_MissingFields400 ==
    [][ ( /\ ViewStep("create_entity")
          /\ ValidPath(req) /\ Authorized(req) /\ NonFaulted(req)
          /\ req'.data.type = "dict"
          /\ ~({"name", "description"} \subseteq DOMAIN req'.data.dict) ) =>
          /\ resp'.status = 400
          /\ \A field \in {"name", "description"} \ DOMAIN req'.data.dict :
                IsSubstring(field, resp'.body.description)
          /\ data_store' = data_store ]_vars

(***************************************************************************)
(* C9.  An authorized, non-faulted create or update is answered 400        *)
(* "Invalid JSON data" exactly when its body is absent or is no mapping,   *)
(* and then the store is unchanged.                                        *)
(***************************************************************************)
C9_InvalidJsonIff ==
    [][ ( /\ ViewStep("create_entity") \/ ViewStep("update_entity")
          /\ ValidPath(req) /\ Authorized(req) /\ NonFaulted(req) ) =>
          /\ req'.data.type # "dict" =>
                /\ resp'.status = 400
                /\ resp'.body.description = "Invalid JSON data"
                /\ data_store' = data_store
          /\ req'.data.type = "dict" =>
                ~( /\ resp'.status = 400
                   /\ resp'.body.description = "Invalid JSON data" ) ]_vars

C11_CreateSemantics ==
    [][ (ViewStep("create_entity") /\ resp'.status = 201) =>
          LET old == Addressed(data_store, req)
              new == Addressed(data_store', req)
              data == req'.data.dict
          IN  /\ new = Append(old, resp'.body)
              /\ resp'.body["id"] = str(Len(old) + 1)
              /\ resp'.body["created_at"] = strftime(req'.now[1])
              /\ DOMAIN resp'.body = (DOMAIN data) \cup {"id", "created_at"}
              /\ \A k \in (DOMAIN data) \ {"id", "created_at"} :
                    resp'.body[k] = data[k] ]_vars

(***************************************************************************)
(* C12.  An id that a successful delete has removed from a collection is   *)
(* never the id of a record that a later create appends to that            *)
(* collection.                                                             *)
(***************************************************************************)
C12_DeletedIdNotReused ==
    [][ (ViewStep("create_entity") /\ resp'.status = 201) =>
          <<req.theme_id, req.entity_type, resp'.body["id"]>>
              \notin deleted_ids ]_vars

(***************************************************************************)
(* C13.  A record carries updated_at only if a successful update has been  *)
(* applied to it: no record of the initial store carries it, and a step    *)
(* after which a record carries it either found that record in the         *)
(* collection already (at its place, or one place further when a delete    *)
(* removed a record before it) or is the successful update that wrote it.  *)
(* In particular the record a create appends carries no updated_at.        *)
(***************************************************************************)
HasUpdatedAt(store) ==
    \E theme \in DOMAIN store : \E entity \in DOMAIN store[theme] :
        \E i \in DOMAIN store[theme][entity] :
            "updated_at" \in DOMAIN store[theme][entity][i]

C13_UpdatedAtOnlyByUpdate ==
    /\ ~HasUpdatedAt(data_store)
    /\ [][ \A theme \in DOMAIN data_store :
             \A entity \in DOMAIN data_store[theme] :
               LET old == data_store[theme][entity]
                   new == data_store'[theme][entity]
               IN  \A i \in DOMAIN new :
                     "updated_at" \in DOMAIN new[i] =>
                        \/ i \in DOMAIN old /\ old[i] = new[i]
                        \/ /\ ViewStep("delete_entity")
                           /\ i + 1 \in DOMAIN old /\ old[i + 1] = new[i]
                        \/ /\ ViewStep("update_entity")
                           /\ resp'.status = 200
                           /\ req.theme_id = theme /\ req.entity_type = entity
                           /\ new[i] = resp'.body ]_vars

(***************************************************************************)
(* Vocabulary of the properties of concurrent requests.                    *)
(***************************************************************************)
\* thread n has returned from the view of endpoint with the status
Returned(n, endpoint, status) ==
    /\ threads[n].pc = "done"
    /\ threads[n].endpoint = endpoint
    /\ threads[n].resp[1].status = status

SameCollection(n, m) ==
    /\ threads[n].theme_id = threads[m].theme_id
    /\ threads[n].entity_type = threads[m].entity_type

\* the step in which thread n leaves the place at of its code
ThreadLeaves(n, at) == threads[n].pc = at /\ threads'[n].pc # at

(***************************************************************************)
(* C14.  Two creates on one collection that run concurrently, neither with *)
(* an id in its body, and both succeed have been given different ids, and  *)
(* the collection holds the record of each.                                *)
(***************************************************************************)
C14_ConcurrentCreates ==
    \A n, m \in Requests :
        ( /\ n # m
          /\ Returned(n, "create_entity", 201)
          /\ Returned(m, "create_entity", 201)
          /\ SameCollection(n, m)
          /\ "id" \notin DOMAIN threads[n].data.dict
          /\ "id" \notin DOMAIN threads[m].data.dict ) =>
            /\ threads[n].resp[1].body["id"] # threads[m].resp[1].body["id"]
            /\ \A k \in {n, m} :
                  \E i \in DOMAIN Collection(threads[k]) :
                      Collection(threads[k])[i] = threads[k].resp[1].body

(***************************************************************************)
(* C15.  When an update runs concurrently with a delete or with another    *)
(* update, the update writes to a position that still holds a record with  *)
(* the id it matched, and the delete pops a position that still holds a    *)
(* record with the id it matched: neither finds the position gone or       *)
(* holding the record of another id.                                       *)
(***************************************************************************)
C15_WriteToMatchedRecord ==
    [][ \A n \in Requests :
          ( /\ \E m \in Requests : threads[m].endpoint = "update_entity"
            /\ \/ ThreadLeaves(n, "update_store")
               \/ ThreadLeaves(n, "delete_pop") )
             => /\ threads[n].i \in DOMAIN Collection(threads[n])
                /\ Collection(threads[n])[threads[n].i]["id"]
                       = threads[n].entity_id ]_vars

(***************************************************************************)
(* C16.  On a protected route the fault check runs once, after the token   *)
(* has been accepted and before the view function: a request whose token   *)
(* is missing or wrong ends at @token_required with 401 or 403, no random  *)
(* draw, no delay, and never 429, 500 or 422; @simulate_errors is entered  *)
(* only from @token_required with the secret, makes its draw there, and    *)
(* touches neither body nor store; and a request it rejects ends there     *)
(* with the status of the chosen kind, the store unchanged and the view    *)
(* function never run.                                                     *)
(***************************************************************************)
Rejecting == {"rate_limit", "server_error", "validation_error"}

C16_FaultCheckOrder ==
    [][ req'.endpoint \in ProtectedViews =>
          /\ (pc' = "done" /\ ~Authorized(req')) =>
                /\ pc = "token_required"
                /\ resp'.status \in {401, 403}
                /\ resp'.delay = 0 /\ req'.delay = 0
                /\ req'.r = NoRequest.r /\ req'.error_type = "none"
          /\ pc' = "simulate_errors" =>
                pc = "token_required" /\ Authorized(req')
          /\ pc = "simulate_errors" =>
                /\ req.r = NoRequest.r /\ req'.r \in RandomDraws
                /\ req'.data = NoRequest.data
                /\ data_store' = data_store
                /\ pc' \in {"view", "done"}
                /\ pc' = "done" <=> req'.error_type \in Rejecting
          /\ (pc' = "done" /\ req'.error_type \in Rejecting) =>
                /\ pc = "simulate_errors"
                /\ req'.error_type = "rate_limit" => resp'.status = 429
                /\ req'.error_type = "server_error" => resp'.status = 500
                /\ req'.error_type = "validation_error" => resp'.status = 422
                /\ resp'.delay = 0 ]_vars

\* a create with the secret that the fault check rejects as rate limited
C16_Witness ==
    /\ Finished("create_entity")
    /\ ValidPath(req) /\ Authorized(req)
    /\ req.error_type = "rate_limit"
    /\ req.data = NoRequest.data
    /\ resp.status = 429

(***************************************************************************)
(* C17.  A request for which @simulate_errors chooses timeout is delayed   *)
(* and not rejected: it goes on to its view function, which answers with   *)
(* the status, the body and the store effect it has without a fault, after *)
(* the delay; and a request whose draw r is not below the error rate (any  *)
(* draw when the rate is 0) goes on to its view function with no delay and *)
(* no error chosen.                                                        *)
(***************************************************************************)
C17_TimeoutPassesThrough ==
    [][ /\ (pc = "simulate_errors" /\ req'.r >= get_config.error_rate) =>
              /\ pc' = "view" /\ resp' = NoResponse
              /\ req'.delay = 0 /\ req'.error_type = "none"
        /\ (pc = "simulate_errors" /\ req'.error_type = "timeout") =>
              /\ pc' = "view" /\ resp' = NoResponse
              /\ req'.delay > 0
        /\ (pc = "view" /\ pc' = "done" /\ req.error_type = "timeout") =>
              /\ resp'.delay = req.delay
              /\ Outcome([resp' EXCEPT !.delay = 0], data_store') \in
                   ViewOutcomes(data_store,
                                [req EXCEPT !.delay = 0,
                                            !.error_type = "none"],
                                IF ReadsBody(req) THEN req'.data ELSE None,
                                IF req'.now # <<>> THEN req'.now[1] ELSE 0)
      ]_vars

\* a delayed create that succeeds
C17_Witness ==
    /\ Finished("create_entity")
    /\ req.error_type = "timeout"
    /\ resp.status = 201
    /\ resp.delay > 0

(***************************************************************************)
(* C18.  While a request sleeps in an injected delay it has read nothing   *)
(* of its view (no body, no length, no record), every other request that   *)
(* has not returned yet, on whatever collection, can take its next step,   *)
(* and no step of a request before its view function changes the store.    *)
(***************************************************************************)
BeforeView == {"token_required", "simulate_errors", "sleep", "view"}

C18_DelayBlocksNoOne ==
    /\ [] ( \A n \in Requests :
              threads[n].pc = "sleep" =>
                 /\ threads[n].data = NoThread.data
                 /\ threads[n].i = 0 /\ threads[n].size = 0
                 /\ threads[n].entity = <<>>
                 /\ threads[n].new_entity = <<>>
                 /\ \A m \in Requests \ {n} :
                       threads[m].pc # "done" => ENABLED ThreadStep(m) )
    /\ [][ \A n \in Requests :
             (threads'[n] # threads[n] /\ threads'[n].pc \in BeforeView)
                => data_store' = data_store ]_vars

\* a request sleeps, and another has created a record meanwhile or before
C18_Witness ==
    \E n, m \in Requests :
        /\ threads[n].pc = "sleep"
        /\ threads[n].endpoint = "delete_entity"
        /\ Returned(m, "create_entity", 201)
        /\ SameCollection(n, m)

(***************************************************************************)
(* C19.  Every step keeps the records of every collection in their order:  *)
(* it leaves the collection alone, or it is a create that adds one record  *)
(* after all the others, an update that replaces one record with the       *)
(* requested id at its position by a record with the same id and           *)
(* created_at, or a delete that removes one record and leaves the others,  *)
(* unchanged, in their order.                                              *)
(***************************************************************************)
C19_OrderPreserved ==
    [][ \A theme \in DOMAIN data_store :
          \A entity \in DOMAIN data_store[theme] :
            LET old == data_store[theme][entity]
                new == data_store'[theme][entity]
            IN  \/ new = old
                \/ /\ ViewStep("create_entity")
                   /\ Len(new) = Len(old) + 1
                   /\ \A j \in DOMAIN old : new[j] = old[j]
                \/ /\ ViewStep("update_entity")
                   /\ Len(new) = Len(old)
                   /\ \E i \in DOMAIN old :
                         /\ old[i]["id"] = req.entity_id
                         /\ new[i]["id"] = old[i]["id"]
                         /\ new[i]["created_at"] = old[i]["created_at"]
                         /\ \A j \in DOMAIN old : j # i => new[j] = old[j]
                \/ /\ ViewStep("delete_entity")
                   /\ Len(new) = Len(old) - 1
                   /\ \E i \in DOMAIN old :
                         /\ old[i]["id"] = req.entity_id
                         /\ \A j \in DOMAIN new :
                               new[j] = IF j < i THEN old[j] ELSE old[j + 1]
      ]_vars

\* a delete of the first of two records: the second is now the first
C19_Witness ==
    /\ Finished("delete_entity")
    /\ resp.status = 200
    /\ ValidPath(req)
    /\ Len(Addressed(data_store, req)) = 1
    /\ Addressed(data_store, req)[1]["id"] # req.entity_id
    /\ Addressed(data_store, req)[1]["id"] = "2"

(***************************************************************************)
(* C20.  The delay d injected for the timeout kind satisfies               *)
(* 1.0 <= d <= timeout_seconds when timeout_seconds >= 1.0, and it is      *)
(* timeout_seconds when timeout_seconds < 1.0.                             *)
(***************************************************************************)
C20_DelayRange ==
    (req.endpoint \in ProtectedViews /\ req.error_type = "timeout") =>
        IF get_config.timeout_seconds >= UNIFORM_LOW
        THEN /\ UNIFORM_LOW <= req.delay
             /\ req.delay <= get_config.timeout_seconds
        ELSE req.delay = get_config.timeout_seconds

(***************************************************************************)
(* C21.  Frame condition.  Only a view function changes the store, so a    *)
(* request that @token_required or @simulate_errors answers (401, 403,     *)
(* 429, 500, 422) changes no collection; a view function that answers      *)
(* with a status outside 2xx (400, 404, 500), and list_entities and        *)
(* get_entity whatever they answer, change no collection; and a create,    *)
(* update or delete that succeeds changes no collection but the one its    *)
(* path names.                                                             *)
(***************************************************************************)
C21_Frame ==
    [][ /\ pc # "view" => data_store' = data_store
        /\ (pc = "view" /\ pc' = "done") =>
              /\ ( \/ ~(200 <= resp'.status /\ resp'.status < 300)
                   \/ req.endpoint \in {"list_entities", "get_entity"} )
                    => data_store' = data_store
              /\ \A theme \in DOMAIN data_store :
                    \A entity \in DOMAIN data_store[theme] :
                       (theme # req.theme_id \/ entity # req.entity_type)
                          => data_store'[theme][entity]
                                = data_store[theme][entity] ]_vars

\* a create without description, answered 400, on a collection and beside
\* collections that hold records
C21_Witness ==
    /\ Finished("create_entity")
    /\ ValidPath(req) /\ Authorized(req)
    /\ req.data.type = "dict"
    /\ DOMAIN req.data.dict = {"name"}
    /\ resp.status = 400
    /\ Addressed(data_store, req) # <<>>
    /\ data_store["space_exploration"]["astronauts"] # <<>>

=============================================================================
